---- MODULE Spec2Model ----
(***************************************************************************)
(* A model of the BMP280 monitor (bmp280_x11_gui5.cpp): the CircularBuffer *)
(* history, the serial reader and its reconnection logic, the line parser  *)
(* and the save/load of the history file.                                  *)
(*                                                                         *)
(* Numbers.  A float reading is modelled as an integer count of thousandths*)
(* (23.5 C is 23500, 990 hPa is 990000): every reading of the model is a   *)
(* decimal of at most seven significant digits, and two different ones are *)
(* different floats.  Time is time(nullptr), in whole seconds.             *)
(***************************************************************************)
EXTENDS Integers, Sequences, FiniteSets, TLC

VARIABLES
    history,        \* CircularBuffer history: buffer, head, size, the two caches
    pushed,         \* history variable: the samples pushed since construction or clear()
    now,            \* time(nullptr)
    pc,             \* where the process is: "run" (the loop of run(), between two
                    \* handlers), inside save_data(), "prompt_s" or "prompt_b" (in the
                    \* std::getline() of key 's' or 'b'), "crashed", or "exit_0" or
                    \* "exit_1" once main() has returned 0 or 1
    disk,           \* the files of logs/: path -> Absent or the sequence of its lines
    filename,       \* std::string filename
    csv_delimiter,  \* char csv_delimiter
    temp_range,     \* float temp_range[2], as load_config() set it
    press_range,    \* float press_range[2], as load_config() set it
    baud_rate,      \* speed_t baud_rate
    fd,             \* int fd: -1, or the descriptor of the open port
    reconnect_attempts,
    last_reconnect_attempt,
    paused,
    serial_buf,     \* serial_buffer[0 .. serial_buf_pos - 1]
    last_save,
    errs,           \* error_messages, persistent_errors, last_error_time, and log: the
                    \* lines the latest handler appended to logs/errors.log
    attempt,        \* history variable: the try_reconnect() of the latest step, if any
    tried,          \* history variable: when the latest reconnect attempt was made, and how
                    \* many attempts have failed since the port was last open
    read,           \* history variable: what the lines completed by the read_serial() of
                    \* the latest step held
    sv,             \* save_data() in progress: loop index i, the state of the stream `out`,
                    \* and (history variables) the data file and the buffer as save_data() began
    last_saved,     \* history variable: per file name, the samples the latest completed save wrote
    loaded,         \* history variable: the file name load_data() read at construction, or ""
    count           \* history variable: the saves and the restarts so far, and the bytes
                    \* of Stream that read() had returned before and after the latest read

cfgVars == <<filename, csv_delimiter, temp_range, press_range>>
linkVars == <<baud_rate, fd, reconnect_attempts, last_reconnect_attempt, paused, serial_buf,
              last_save, attempt, tried, read>>
diskVars == <<disk, sv, last_saved, loaded, count>>
procVars == <<now, pc, cfgVars, linkVars, diskVars, errs>>
vars == <<history, pushed, procVars>>

(***************************************************************************)
(* Bounds of the model                                                     *)
(***************************************************************************)
\* capacity of the ring (MAX_POINTS is 300 in the source; the model scales it down)
MAX_POINTS == 3
\* pushes followed in the buffer specification: more than two full wraps
MaxPushes == 7
\* size of serial_buffer, in symbols (BUFFER_SIZE is 256 bytes in the source)
BUFFER_SIZE == 13
\* time(nullptr) as the process starts, and how many seconds each specification follows
StartTime == 1000
DataHorizon == 1
LinkHorizon == 15
\* the saves and the restarts the persistence specification follows
MaxSaves == 1
MaxRestarts == 1

Min(a, b) == IF a < b THEN a ELSE b
Max(a, b) == IF a > b THEN a ELSE b

(***************************************************************************)
(* DataPoint and CircularBuffer                                            *)
(***************************************************************************)
DataPoint(t, p, ts) == [temperature |-> t, pressure |-> p, timestamp |-> ts]

\* a slot of std::array<DataPoint, MAX_POINTS> that push() has not written yet
Unwritten == DataPoint(0, 0, 0)

Slots == 0 .. (MAX_POINTS - 1)

\* CircularBuffer(): head = 0, size = 0, both caches MAX_POINTS zeros
NewBuffer ==
    [buffer      |-> [s \in Slots |-> Unwritten],
     head        |-> 0,
     size        |-> 0,
     temp_cache  |-> [s \in Slots |-> 0],
     press_cache |-> [s \in Slots |-> 0]]

\* (a head that stops at the last slot instead of wrapping)
NextHead_stuck(head) == IF head + 1 < MAX_POINTS THEN head + 1 ELSE head
\* head = (head + 1) % MAX_POINTS
NextHead(head) == (head + 1) % MAX_POINTS

\* void push(const DataPoint& point)
Push(h, point) ==
    [buffer      |-> [h.buffer EXCEPT ![h.head] = point],
     head        |-> NextHead(h.head),
     size        |-> IF h.size < MAX_POINTS THEN h.size + 1 ELSE h.size,
     temp_cache  |-> [s \in Slots |-> 0],
     press_cache |-> [s \in Slots |-> 0]]

\* size_t get_size() const
get_size(h) == h.size

\* the physical slot of logical index `index`: (head + MAX_POINTS - size + index) % MAX_POINTS
PhysIndex(h, index) == (h.head + MAX_POINTS - h.size + index) % MAX_POINTS

\* const DataPoint& operator[](size_t index) const, for a non-empty buffer
At(h, index) == h.buffer[PhysIndex(h, index)]

\* void clear()
Clear(h) ==
    [h EXCEPT !.head = 0, !.size = 0,
              !.temp_cache = [s \in Slots |-> 0],
              !.press_cache = [s \in Slots |-> 0]]

\* the retained samples, oldest first: history[0] .. history[size - 1]
Contents(h) == [i \in 1 .. h.size |-> At(h, i - 1)]

(***************************************************************************)
(* Errors: add_error()                                                     *)
(***************************************************************************)
\* the 5 of error_messages.size() >= 5 and persistent_errors.size() >= 5 in
\* add_error(), scaled down
ERROR_LIST_MAX == 2

NoErrors == [error_messages |-> <<>>, persistent_errors |-> <<>>,
             last_error_time |-> 0, log |-> <<>>]

\* a list after one more message: the oldest entry is erased at ERROR_LIST_MAX
Capped(list, msg) ==
    Append(IF Len(list) >= ERROR_LIST_MAX THEN Tail(list) ELSE list, msg)

\* void add_error(const std::string& msg, bool persistent = false) const, at time t
AddError(e, msg, persistent, t) ==
    [error_messages    |-> Capped(e.error_messages, msg),
     persistent_errors |-> IF persistent THEN Capped(e.persistent_errors, msg)
                           ELSE e.persistent_errors,
     last_error_time   |-> t,
     log               |-> Append(e.log, msg)]

\* a handler begins: nothing appended to logs/errors.log by it yet
Begin(e) == [e EXCEPT !.log = <<>>]

(***************************************************************************)
(* The data file: save_data() and load_data()                              *)
(***************************************************************************)
\* t >= -40.0f && t <= 85.0f, p >= 300.0f && p <= 1100.0f (in thousandths)
TEMP_MIN == -40000
TEMP_MAX == 85000
PRESS_MIN == 300000
PRESS_MAX == 1100000

\* the precision of `out << d.temperature`: std::ofstream's default, 6 significant digits
StreamPrecision == 6

Abs(x) == IF x < 0 THEN -x ELSE x

RECURSIVE Digits(_)
Digits(n) == IF n < 10 THEN 1 ELSE 1 + Digits(n \div 10)

RECURSIVE Pow10(_)
Pow10(k) == IF k = 0 THEN 1 ELSE 10 * Pow10(k - 1)

\* operator<<(float): the decimal of at most StreamPrecision significant digits
\* nearest to v. A decimal tie is decided by the float's binary expansion; the
\* readings of the model hold no tie.
FormatFloat(v) ==
    LET a == Abs(v)
        d == Digits(a)
    IN  IF d <= StreamPrecision THEN v
        ELSE LET q == Pow10(d - StreamPrecision)
                 r == ((a + (q \div 2)) \div q) * q
             IN  IF v < 0 THEN -r ELSE r

\* operator>>(float&) on a decimal of at most StreamPrecision digits: the float it names
ParseFloat(text) == text

\* the delimiters of the model: punctuation that is neither white space nor part of a number
Delimiters == {",", ";"}

\* out << d.temperature << csv_delimiter << d.pressure << csv_delimiter << d.timestamp << "\n"
FormatLine(d, delim) ==
    [t |-> FormatFloat(d.temperature), d1 |-> delim,
     p |-> FormatFloat(d.pressure), d2 |-> delim,
     ts |-> d.timestamp, ok |-> TRUE]

\* the loop of save_data(): history[0] .. history[size - 1], one line each
Serialize(h, delim) == [i \in 1 .. get_size(h) |-> FormatLine(At(h, i - 1), delim)]

Absent == [exists |-> FALSE, lines |-> <<>>]
File(lines) == [exists |-> TRUE, lines |-> lines]

\* (a save that writes the data file in place)
TempPath_inplace(name) == <<name, "data">>
\* "logs/" + filename + ".tmp"
TempPath(name) == <<name, "tmp">>
\* "logs/" + filename
DataPath(name) == <<name, "data">>

\* the condition of load_data(): iss >> t >> delim >> p >> delim >> ts succeeds,
\* delim (the second one read) is csv_delimiter, the values are in range and
\* 0 < ts <= time(nullptr)
LineAccepted(line, delim, t) ==
    /\ line.ok
    /\ line.d2 = delim
    /\ ParseFloat(line.t) >= TEMP_MIN /\ ParseFloat(line.t) <= TEMP_MAX
    /\ ParseFloat(line.p) >= PRESS_MIN /\ ParseFloat(line.p) <= PRESS_MAX
    /\ line.ts > 0 /\ line.ts <= t

\* (a load_data() that gives up at the first line it rejects)
RECURSIVE LoadLines_abort(_, _, _, _, _)
LoadLines_abort(st, lines, i, delim, t) ==
    IF i > Len(lines) THEN st
    ELSE IF LineAccepted(lines[i], delim, t)
    THEN LoadLines_abort([st EXCEPT !.h = Push(st.h,
             DataPoint(ParseFloat(lines[i].t), ParseFloat(lines[i].p), lines[i].ts))],
             lines, i + 1, delim, t)
    ELSE [st EXCEPT !.e = AddError(st.e, "Invalid data line", FALSE, t)]

\* the while (std::getline(in, line)) loop of load_data(), from line i on:
\* st = [h |-> the buffer, e |-> the errors]
RECURSIVE LoadLines(_, _, _, _, _)
LoadLines(st, lines, i, delim, t) ==
    IF i > Len(lines) THEN st
    ELSE LET line == lines[i]
             nxt == IF LineAccepted(line, delim, t)
                    THEN [st EXCEPT !.h = Push(st.h,
                              DataPoint(ParseFloat(line.t), ParseFloat(line.p), line.ts))]
                    ELSE [st EXCEPT !.e = AddError(st.e, "Invalid data line", FALSE, t)]
         IN  LoadLines(nxt, lines, i + 1, delim, t)

\* bool load_data(const std::string& path): the buffer and the errors after it.
\* canOpen: std::ifstream in(path) succeeded.
LoadData(h, e, file, canOpen, delim, t) ==
    IF ~file.exists THEN [h |-> h, e |-> e, result |-> FALSE]
    ELSE IF ~canOpen
         THEN [h |-> Clear(h), e |-> AddError(e, "Failed to open data file", FALSE, t),
               result |-> FALSE]
         ELSE LET st == LoadLines([h |-> Clear(h), e |-> e], file.lines, 1, delim, t)
              IN  [h |-> st.h, e |-> st.e, result |-> get_size(st.h) > 0]

(***************************************************************************)
(* The memory of the process as one record, so that a handler is the       *)
(* composition of the functions it calls                                   *)
(***************************************************************************)
Cur ==
    [history |-> history, filename |-> filename, baud_rate |-> baud_rate, fd |-> fd,
     reconnect_attempts |-> reconnect_attempts,
     last_reconnect_attempt |-> last_reconnect_attempt,
     paused |-> paused, serial_buf |-> serial_buf, last_save |-> last_save,
     errs |-> errs, attempt |-> attempt, tried |-> tried, read |-> read,
     disk |-> disk, last_saved |-> last_saved]

Commit(m) ==
    \E v \in {m} :
        /\ history' = v.history
        /\ filename' = v.filename
        /\ baud_rate' = v.baud_rate
        /\ fd' = v.fd
        /\ reconnect_attempts' = v.reconnect_attempts
        /\ last_reconnect_attempt' = v.last_reconnect_attempt
        /\ paused' = v.paused
        /\ serial_buf' = v.serial_buf
        /\ last_save' = v.last_save
        /\ errs' = v.errs
        /\ attempt' = v.attempt
        /\ tried' = v.tried
        /\ read' = v.read
        /\ disk' = v.disk
        /\ last_saved' = v.last_saved

\* called: try_reconnect() ran; made: it went past its two guards; gap: the seconds
\* since the attempt before, counted up to RECONNECT_TIMEOUT; fd: the descriptor as it went past them; after: the
\* attempts that had failed in a row before this one
NoAttempt == [called |-> FALSE, made |-> FALSE, gap |-> 0, fd |-> 0, after |-> 0]
NeverTried == [last |-> 0, failed |-> 0]

\* done: read_serial() received bytes; temp, press: a completed line held a
\* temperature, a pressure, within the range of process_line(); rejected: the
\* completed lines that held a temperature or a pressure outside of it
NoRead == [done |-> FALSE, temp |-> FALSE, press |-> FALSE, rejected |-> 0]

\* a step begins: no line appended to the log, no reconnect attempt and no read yet
Enter(m) == [m EXCEPT !.errs = Begin(@), !.attempt = NoAttempt, !.read = NoRead]

(***************************************************************************)
(* The serial link: try_reconnect()                                        *)
(***************************************************************************)
\* fd = -1: no open port
Closed == -1
RECONNECT_TIMEOUT == 5
\* int max_reconnect_attempts = 10 in the source, scaled down
max_reconnect_attempts == 3

\* what the system answers to one try_reconnect(): port: find_serial_port() finds a
\* device; open: the first of baud_rates[] at which open_serial() succeeds, or "none"
ReconnectAnswers ==
    { [port |-> FALSE, open |-> "none"],
      [port |-> TRUE, open |-> "none"],
      [port |-> TRUE, open |-> "B9600"],
      [port |-> TRUE, open |-> "B115200"] }

\* (a try_reconnect() that never gives up)
BudgetLeft_unbounded(attempts) == TRUE
\* the guard of line 334: fd != -1 || reconnect_attempts >= max_reconnect_attempts
BudgetLeft(attempts) == attempts < max_reconnect_attempts

\* (a try_reconnect() with no cool-down)
CooldownElapsed_always(t, last) == TRUE
\* the guard of line 335: difftime(time(nullptr), last_reconnect_attempt) < RECONNECT_TIMEOUT
CooldownElapsed(t, last) == t - last >= RECONNECT_TIMEOUT

\* (a successful try_reconnect() that leaves the counter and the errors as they were)
Reconnected_stale(m, baud) == [m EXCEPT !.fd = 3, !.baud_rate = baud]
\* open_serial() succeeded inside try_reconnect(): lines 348-353
Reconnected(m, baud) ==
    [m EXCEPT !.fd = 3,
              !.baud_rate = baud,
              !.errs.persistent_errors = <<>>,
              !.errs.error_messages = <<>>,
              !.reconnect_attempts = 0,
              !.tried.failed = 0]

\* open_serial() failed: add_error(e.what(), true); fd = -1
OpenFailed(m, t) ==
    [m EXCEPT !.fd = Closed,
              !.errs = AddError(@, "Failed to open serial port", TRUE, t)]

\* void try_reconnect(), answered by ans at time t
TryReconnect(m, ans, t) ==
    IF m.fd # Closed \/ ~BudgetLeft(m.reconnect_attempts)
    THEN [m EXCEPT !.attempt.called = TRUE]
    ELSE IF ~CooldownElapsed(t, m.last_reconnect_attempt)
    THEN [m EXCEPT !.attempt.called = TRUE]
    ELSE LET m1 == [m EXCEPT !.last_reconnect_attempt = t,
                             !.reconnect_attempts = @ + 1,
                             !.attempt = [called |-> TRUE, made |-> TRUE,
                                          gap |-> Min(t - m.tried.last, RECONNECT_TIMEOUT),
                                          fd |-> m.fd,
                                          after |-> m.tried.failed],
                             !.tried = [last |-> t, failed |-> @.failed + 1]]
         IN  IF ~ans.port
             THEN [m1 EXCEPT !.errs = AddError(@, "No serial port available", TRUE, t)]
             ELSE IF ans.open = "B9600" THEN Reconnected(m1, "B9600")
             ELSE IF ans.open = "B115200" THEN Reconnected(OpenFailed(m1, t), "B115200")
             ELSE LET m2 == OpenFailed(OpenFailed(m1, t), t)
                  IN  [m2 EXCEPT !.errs = AddError(@, "Failed to reconnect", TRUE, t)]

(***************************************************************************)
(* The line parser: parse_value(), process_line()                          *)
(*                                                                         *)
(* A byte of the serial stream is abstracted to a symbol: the label "Temp" *)
(* (k = "T"), the label "Pres" (k = "P"), a numeric token that std::stof   *)
(* accepts (k = "N", v its value), a '-' that no digit follows (k = "B":   *)
(* std::stof throws), any other text (k = "X") and '\n' (k = "NL").        *)
(***************************************************************************)
Sym(k, v) == [k |-> k, v |-> v]
LabelT == Sym("T", 0)
LabelP == Sym("P", 0)
Num(v) == Sym("N", v)
BadNum == Sym("B", 0)
Other == Sym("X", 0)
NL == Sym("NL", 0)

\* line.find(label) != std::string::npos
Found(line, k) == \E i \in 1 .. Len(line) : line[i].k = k

\* bool parse_value(const std::string& line, float& value) const:
\* the first of "-0123456789" in the line, and std::stof from there
ParseValue(line) ==
    LET starts == { i \in 1 .. Len(line) : line[i].k \in {"N", "B"} }
    IN  IF starts = {} THEN [ok |-> FALSE, value |-> 0]
        ELSE LET pos == CHOOSE i \in starts : \A j \in starts : i <= j
             IN  IF line[pos].k = "N" THEN [ok |-> TRUE, value |-> line[pos].v]
                 ELSE [ok |-> FALSE, value |-> 0]

\* (a process_line() that takes any temperature)
TempInRange_clamped(value) == TRUE
\* value >= -40.0f && value <= 85.0f
TempInRange(value) == value >= TEMP_MIN /\ value <= TEMP_MAX
\* value >= 300.0f && value <= 1100.0f
PressInRange(value) == value >= PRESS_MIN /\ value <= PRESS_MAX

\* float temp = 0.0f, press = 0.0f; bool got_temp = false, got_press = false;
NoReading == [temp |-> 0, press |-> 0, got_temp |-> FALSE, got_press |-> FALSE]

\* (a process_line() that keeps the first temperature and the first pressure of a read)
ProcessLine_first(st, line, t) ==
    LET pv == ParseValue(line)
    IN  IF Found(line, "T") /\ pv.ok
        THEN IF TempInRange(pv.value)
             THEN IF st.r.got_temp THEN st
                  ELSE [st EXCEPT !.r.temp = pv.value, !.r.got_temp = TRUE]
             ELSE [st EXCEPT !.e = AddError(@, "Invalid temperature", FALSE, t)]
        ELSE IF Found(line, "P") /\ pv.ok
        THEN IF PressInRange(pv.value)
             THEN IF st.r.got_press THEN st
                  ELSE [st EXCEPT !.r.press = pv.value, !.r.got_press = TRUE]
             ELSE [st EXCEPT !.e = AddError(@, "Invalid pressure", FALSE, t)]
        ELSE st

\* void process_line(line, temp, press, got_temp, got_press): st = [r |-> the four
\* locals of read_serial(), e |-> the errors]
ProcessLine(st, line, t) ==
    LET pv == ParseValue(line)
    IN  IF Found(line, "T") /\ pv.ok
        THEN IF TempInRange(pv.value)
             THEN [st EXCEPT !.r.temp = pv.value, !.r.got_temp = TRUE]
             ELSE [st EXCEPT !.e = AddError(@, "Invalid temperature", FALSE, t)]
        ELSE IF Found(line, "P") /\ pv.ok
        THEN IF PressInRange(pv.value)
             THEN [st EXCEPT !.r.press = pv.value, !.r.got_press = TRUE]
             ELSE [st EXCEPT !.e = AddError(@, "Invalid pressure", FALSE, t)]
        ELSE st

(***************************************************************************)
(* read_serial()                                                           *)
(***************************************************************************)
\* the positions of the newlines of buf, and the k-th of them (0 for k = 0)
Newlines(buf) == { i \in 1 .. Len(buf) : buf[i].k = "NL" }
NthNewline(buf, k) ==
    IF k = 0 THEN 0
    ELSE CHOOSE i \in Newlines(buf) : Cardinality({ j \in Newlines(buf) : j <= i }) = k

\* the k-th complete line of buf
NthLine(buf, k) == SubSeq(buf, NthNewline(buf, k - 1) + 1, NthNewline(buf, k) - 1)

\* the while loop over the complete lines of buf: st = [r |-> the four locals,
\* e |-> the errors] after process_line() of the first n lines
RECURSIVE ScanLines(_, _, _, _)
ScanLines(st, buf, n, t) ==
    IF n = 0 THEN st
    ELSE ProcessLine(ScanLines(st, buf, n - 1, t), NthLine(buf, n), t)

\* what a line holds for process_line(): "T" (a temperature), "P" (a pressure) or
\* "" (neither), and its value
Holds(line) ==
    IF ~ParseValue(line).ok THEN ""
    ELSE IF Found(line, "T") THEN "T"
    ELSE IF Found(line, "P") THEN "P" ELSE ""
WithinLimits(line) ==
    LET v == ParseValue(line).value
    IN  IF Holds(line) = "T" THEN v >= TEMP_MIN /\ v <= TEMP_MAX
        ELSE v >= PRESS_MIN /\ v <= PRESS_MAX

\* the value of the last of the n complete lines of buf that holds a k ("T" or "P")
\* within its limits, 0 when no line does
RECURSIVE LastInRange(_, _, _)
LastInRange(buf, n, k) ==
    IF n = 0 THEN 0
    ELSE IF Holds(NthLine(buf, n)) = k /\ WithinLimits(NthLine(buf, n))
    THEN ParseValue(NthLine(buf, n)).value
    ELSE LastInRange(buf, n - 1, k)

\* the history variable `read` for the n complete lines of buf
Observed(buf, n) ==
    [done     |-> TRUE,
     temp     |-> \E k \in 1 .. n : Holds(NthLine(buf, k)) = "T" /\ WithinLimits(NthLine(buf, k)),
     press    |-> \E k \in 1 .. n : Holds(NthLine(buf, k)) = "P" /\ WithinLimits(NthLine(buf, k)),
     rejected |-> Cardinality({ k \in 1 .. n : /\ Holds(NthLine(buf, k)) # ""
                                               /\ ~WithinLimits(NthLine(buf, k)) })]

\* (a push as soon as one of the two fields was read)
PairComplete_either(r) == r.got_temp \/ r.got_press
\* if (got_temp && got_press), the condition of the push
PairComplete(r) == r.got_temp /\ r.got_press

\* the answers of select() and read() to one read_serial()
Answer(kind, data) == [kind |-> kind, data |-> data]

\* (a read_serial() that takes every failed read() for the loss of the link)
ReadFailed_any(ans) == ans.kind \in {"read_error", "eagain"}
\* len < 0 && errno != EAGAIN: "eagain" is the read() that fails with EAGAIN,
\* "read_error" the one that fails with another errno
ReadFailed(ans) == ans.kind = "read_error"

\* (a read_serial() that reads on while the collection is paused)
Idle_reading(m) == m.fd = Closed
\* if (fd == -1 || paused) return;
Idle(m) == m.fd = Closed \/ m.paused

\* (a read() that may fill serial_buffer to its last byte)
Room_full(pending) == BUFFER_SIZE - Len(pending)
\* the count handed to read(): BUFFER_SIZE - serial_buf_pos - 1
Room(pending) == BUFFER_SIZE - Len(pending) - 1

\* (a read_serial() that forgets the text after the last newline)
Remainder_dropped(buf, lines) == <<>>
\* serial_buf_pos = buf.size() - pos, and the memmove of the text after the last
\* of the `lines` newlines of buf
Remainder(buf, lines) == SubSeq(buf, NthNewline(buf, lines) + 1, Len(buf))

\* void read_serial(), answered by ans at time t
ReadSerial(m, ans, t) ==
    IF Idle(m) THEN m
    ELSE IF ans.kind = "select_error"
    THEN [m EXCEPT !.errs = AddError(@, "Select error", FALSE, t), !.fd = Closed]
    ELSE IF ans.kind = "not_ready" THEN m
    ELSE IF ReadFailed(ans)
    THEN [m EXCEPT !.errs = AddError(@, "Serial read error", FALSE, t), !.fd = Closed]
    ELSE IF ans.kind = "eagain" THEN m
    ELSE \* read(fd, serial_buffer + serial_buf_pos, BUFFER_SIZE - serial_buf_pos - 1)
         LET got == SubSeq(ans.data, 1, Min(Len(ans.data), Room(m.serial_buf)))
         IN  IF got = <<>> THEN m
             ELSE LET buf   == m.serial_buf \o got
                      lines == Cardinality(Newlines(buf))
                      st    == ScanLines([r |-> NoReading, e |-> m.errs], buf, lines, t)
                  IN  [m EXCEPT
                         !.read = Observed(buf, lines),
                         !.errs = st.e,
                         !.history = IF PairComplete(st.r)
                                     THEN Push(@, DataPoint(st.r.temp, st.r.press, t))
                                     ELSE @,
                         \* memmove of the text after the last newline
                         !.serial_buf = Remainder(buf, lines)]

(***************************************************************************)
(* save_data() as one step of a handler                                    *)
(***************************************************************************)
\* how one save_data() ends: the stream cannot be opened, a write or the close
\* fails after `written` lines, the rename throws, or all of it succeeds
SaveEndings(h) ==
    { [kind |-> "open_fail", written |-> 0], [kind |-> "rename_fail", written |-> 0],
      [kind |-> "ok", written |-> 0] }
    \cup { [kind |-> "write_fail", written |-> k] : k \in 0 .. get_size(h) }

\* void save_data(), ending as `end` at time t
SaveData(m, end, t) ==
    LET tmp  == TempPath(m.filename)
        data == DataPath(m.filename)
        all  == Serialize(m.history, csv_delimiter)
    IN  IF end.kind = "open_fail"
        THEN [m EXCEPT !.errs = AddError(@, "Failed to open temp file", FALSE, t)]
        ELSE IF end.kind = "write_fail"
        THEN [m EXCEPT !.disk[tmp] = File(SubSeq(all, 1, end.written)),
                       !.errs = AddError(@, "Failed to write data to temp file", FALSE, t)]
        ELSE IF end.kind = "rename_fail"
        THEN [m EXCEPT !.disk[tmp] = File(all),
                       !.errs = AddError(@, "Failed to rename temp file", FALSE, t)]
        ELSE [m EXCEPT !.disk[tmp] = Absent,
                       !.disk[data] = File(all),
                       !.last_saved[m.filename] = [valid |-> TRUE, samples |-> Contents(m.history)],
                       !.errs = AddError(@, "Saved to", FALSE, t)]

(***************************************************************************)
(* Construction: BMP280Gui(argc, argv)                                     *)
(***************************************************************************)
\* the file names of the model: argv[1], and what the user types at the 's' prompt
FileNames == {"data.csv", "run2.csv"}
Paths == { TempPath(n) : n \in FileNames } \cup { DataPath(n) : n \in FileNames }

NoSave == [phase |-> "idle", name |-> "", opened |-> FALSE, i |-> 0, ok |-> TRUE,
           prev |-> Absent, new |-> <<>>]
NeverSaved == [n \in FileNames |-> [valid |-> FALSE, samples |-> <<>>]]

\* what the system answers to the constructor's find_serial_port() and open_serial()
PortAnswers == {"none", "fail", "ok"}

\* the members as the constructor leaves them: the port found and opened or not,
\* then load_data("logs/" + filename). The configuration file and the command
\* line are valid ones, so that load_config() and the argv switch report nothing.
Construct(name, baud, delim, d, port, canOpen, t) ==
    LET m0 == [history |-> NewBuffer, filename |-> name, baud_rate |-> baud,
               fd |-> Closed, reconnect_attempts |-> 0, last_reconnect_attempt |-> 0,
               paused |-> FALSE, serial_buf |-> <<>>, last_save |-> 0,
               errs |-> NoErrors, attempt |-> NoAttempt, tried |-> NeverTried,
               read |-> NoRead, disk |-> d,
               last_saved |-> NeverSaved]
        m1 == IF port = "none"
              THEN [m0 EXCEPT !.errs = AddError(@, "No serial port found", TRUE, t)]
              ELSE IF port = "fail"
              THEN LET f == OpenFailed(m0, t)
                   IN  [f EXCEPT !.errs = AddError(@, "Unable to open serial port", TRUE, t)]
              ELSE [m0 EXCEPT !.fd = 3]
        ld == LoadData(m1.history, m1.errs, d[DataPath(name)], canOpen, delim, t)
    IN  [m1 EXCEPT !.history = ld.h,
                   !.errs = IF ld.result
                            THEN AddError(ld.e, "Loaded data from", FALSE, t)
                            ELSE ld.e]

(***************************************************************************)
(* The handlers of the loop of run()                                       *)
(***************************************************************************)
\* int save_interval = 30
save_interval == 30
ERROR_DISPLAY_TIME == 5

rest == <<pushed, now, pc, csv_delimiter, temp_range, press_range, sv, loaded, count>>

\* void update_state(): try_reconnect(); read_serial(); the periodic save_data()
update_state(reconnectAnswers, serialAnswers, saveEndings) ==
    /\ pc = "run"
    /\ \E ra \in reconnectAnswers, sa \in serialAnswers :
       \E m1 \in {TryReconnect(Enter(Cur), ra, now)} :
       \E m2 \in {ReadSerial(m1, sa, now)} :
          IF ~m2.paused /\ now - m2.last_save >= save_interval
          THEN \E end \in SaveEndings(m2.history) \cap saveEndings :
                  Commit([SaveData(m2, end, now) EXCEPT !.last_save = now])
          ELSE Commit(m2)

\* update_state() as a step of the loop of run()
UpdateState(reconnectAnswers, serialAnswers, saveEndings) ==
    /\ update_state(reconnectAnswers, serialAnswers, saveEndings)
    /\ UNCHANGED rest

\* handle_events(), key 'p' (and a click on the menu bar's second field)
KeyP ==
    /\ pc = "run"
    /\ Commit([Enter(Cur) EXCEPT !.paused = ~@])
    /\ UNCHANGED rest

\* handle_events(), key 'c'
KeyC ==
    /\ pc = "run"
    /\ errs.error_messages # <<>> \/ errs.persistent_errors # <<>>
    /\ LET m == Enter(Cur)
       IN  Commit([m EXCEPT !.errs.error_messages = <<>>,
                            !.errs.persistent_errors =
                                IF m.fd # Closed THEN <<>> ELSE @])
    /\ UNCHANGED rest

\* handle_events(), key 'b', from std::getline() on: the user has typed `input`, a
\* rate the program supports ("9600", "115200"), another number, or text that
\* std::stoi rejects ("fast")
key_b(inputs, reconnectAnswers) ==
    \E input \in inputs, ra \in reconnectAnswers :
       LET m == Enter(Cur)
       IN  IF input = "fast"
           THEN Commit([m EXCEPT !.errs = AddError(@, "Invalid baud rate input", FALSE, now)])
           ELSE IF input \notin {"9600", "115200"}
           THEN Commit([m EXCEPT !.errs =
                           AddError(@, "Invalid baud rate, using default: 9600", FALSE, now)])
           ELSE LET m1 == [m EXCEPT !.baud_rate = IF input = "115200" THEN "B115200"
                                                  ELSE "B9600"]
                    m2 == IF m1.fd # Closed
                          THEN TryReconnect([m1 EXCEPT !.fd = Closed], ra, now)
                          ELSE m1
                IN  Commit([m2 EXCEPT !.errs = AddError(@, "Set baud rate to", FALSE, now)])

\* handle_events(), key 'b', with the line the user types at the prompt
KeyB(inputs, reconnectAnswers) ==
    /\ pc = "run"
    /\ key_b(inputs, reconnectAnswers)
    /\ UNCHANGED rest

\* handle_events(), key 's' (and a click on the menu bar's first field), from
\* std::getline() on: the user has typed `input` ("" keeps the file name)
key_s(inputs, saveEndings) ==
    \E input \in inputs :
       LET m == [Enter(Cur) EXCEPT !.filename = IF input = "" THEN @ ELSE input]
       IN  \E end \in SaveEndings(m.history) \cap saveEndings :
              Commit(SaveData(m, end, now))

\* handle_events(), key 's', with the line the user types at the prompt
KeyS(inputs, saveEndings) ==
    /\ pc = "run"
    /\ key_s(inputs, saveEndings)
    /\ UNCHANGED rest

\* run(): error_messages.clear() once the latest error is older than ERROR_DISPLAY_TIME
ExpireErrors ==
    /\ pc = "run"
    /\ errs.error_messages # <<>>
    /\ now - errs.last_error_time > ERROR_DISPLAY_TIME
    /\ Commit([Enter(Cur) EXCEPT !.errs.error_messages = <<>>])
    /\ UNCHANGED rest

\* the clock: time(nullptr) moves on by `seconds`, up to `horizon`
Tick(horizon, seconds) ==
    /\ now + seconds <= horizon
    /\ now' = now + seconds
    /\ errs' = Begin(errs)
    /\ attempt' = NoAttempt
    /\ read' = NoRead
    /\ UNCHANGED <<history, pushed, pc, cfgVars, diskVars, baud_rate, fd, reconnect_attempts,
                   last_reconnect_attempt, paused, serial_buf, last_save, tried>>

(***************************************************************************)
(* The state after construction                                            *)
(***************************************************************************)
EmptyDisk == [q \in Paths |-> Absent]

\* a line of a data file written before the process started
OldLine(t, p, delim, ts) == [t |-> t, d1 |-> delim, p |-> p, d2 |-> delim, ts |-> ts, ok |-> TRUE]

\* the process has just been constructed at StartTime, over the files d
Boot(name, baud, delim, d, port, canOpen) ==
    LET m == Construct(name, baud, delim, d, port, canOpen, StartTime)
    IN  /\ now = StartTime
        /\ pc = "run"
        /\ csv_delimiter = delim
        /\ history = m.history
        /\ filename = m.filename
        /\ baud_rate = m.baud_rate
        /\ fd = m.fd
        /\ reconnect_attempts = m.reconnect_attempts
        /\ last_reconnect_attempt = m.last_reconnect_attempt
        /\ paused = m.paused
        /\ serial_buf = m.serial_buf
        /\ last_save = m.last_save
        /\ errs = m.errs
        /\ attempt = m.attempt
        /\ tried = m.tried
        /\ read = m.read
        /\ disk = m.disk
        /\ last_saved = m.last_saved
        /\ pushed = <<>>
        /\ sv = NoSave
        /\ loaded = IF d[DataPath(name)].exists /\ canOpen THEN name ELSE ""
        /\ count = [saves |-> 0, restarts |-> 0, before |-> 0, received |-> 0]

\* temp_range and press_range of struct Config, and a narrower valid setting
DefaultTempRange == <<TEMP_MIN, TEMP_MAX>>
DefaultPressRange == <<PRESS_MIN, PRESS_MAX>>

(***************************************************************************)
(* SpecBuffer: the CircularBuffer alone, under any sequence of push/clear  *)
(***************************************************************************)
\* the samples pushed in the buffer specification
BufPoints ==
    { DataPoint(23500, 990000, 100),
      DataPoint(-40000, 300000, 101),
      DataPoint(85000, 1100000, 102) }

BufInit ==
    /\ Boot("data.csv", "B9600", ",", EmptyDisk, "none", TRUE)
    /\ temp_range = DefaultTempRange
    /\ press_range = DefaultPressRange

BufPush ==
    \E point \in BufPoints :
        /\ Len(pushed) < MaxPushes
        /\ history' = Push(history, point)
        /\ pushed' = Append(pushed, point)
        /\ UNCHANGED procVars

BufClear ==
    /\ pushed # <<>>
    /\ history' = Clear(history)
    /\ pushed' = <<>>
    /\ UNCHANGED procVars

BufNext == BufPush \/ BufClear

SpecBuffer == BufInit /\ [][BufNext]_vars

\* C1: after any sequence of pushes, size() = min(push_count, N), and at(i) for
\* i < size() is the (max(0, push_count - N) + i)-th pushed sample: index 0 is
\* the oldest retained sample and the samples read out in arrival order.
C1_OldestRetained ==
    /\ get_size(history) = Min(Len(pushed), MAX_POINTS)
    /\ \A i \in 0 .. (get_size(history) - 1) :
          At(history, i) = pushed[Max(0, Len(pushed) - MAX_POINTS) + i + 1]

\* the ring has wrapped: more pushes than the capacity, head not at slot 0
C1_Witness ==
    /\ Len(pushed) > MAX_POINTS + 1
    /\ history.head # 0
    /\ get_size(history) = MAX_POINTS
    /\ At(history, 0) # At(history, MAX_POINTS - 1)

(***************************************************************************)
(* SpecPersist: save_data() step by step, a crash at any point, and the    *)
(* next start of the program, which loads the file                         *)
(***************************************************************************)
\* the samples of the buffer that is saved; one pressure has seven significant digits
PersistPoints ==
    { DataPoint(23500, 990000, StartTime - 3),
      DataPoint(-40000, 1100000, StartTime - 2),
      DataPoint(21250, 1013123, StartTime - 1) }

\* a data file of an earlier run
OldFile(delim) ==
    File(<< OldLine(19000, 1000000, delim, StartTime - 50),
            OldLine(19500, 1001000, delim, StartTime - 40) >>)

PersistInit ==
    /\ \E delim \in Delimiters, old \in BOOLEAN :
          Boot("data.csv", "B9600", delim,
               IF old THEN [EmptyDisk EXCEPT ![DataPath("data.csv")] = OldFile(delim)]
               ELSE EmptyDisk,
               "none", TRUE)
    /\ temp_range = DefaultTempRange
    /\ press_range = DefaultPressRange

\* the buffer fills: history.push() of read_serial(), for a reading of PersistPoints
PersistPush ==
    /\ pc = "run"
    /\ \E point \in PersistPoints :
          /\ point.timestamp <= now
          /\ get_size(history) = 0 \/ At(history, get_size(history) - 1).timestamp <= point.timestamp
          /\ Len(pushed) <= MAX_POINTS
          /\ history' = Push(history, point)
          /\ pushed' = Append(pushed, point)
    /\ loaded' = ""
    /\ sv' = NoSave
    /\ UNCHANGED <<now, pc, cfgVars, linkVars, disk, last_saved, count, errs>>

\* key 's': the prompt, where the user keeps the file name, then save_data() up to
\* std::ofstream out(temp_path)
SaveOpen ==
    /\ pc = "run"
    /\ count.saves < MaxSaves
    /\ count' = [count EXCEPT !.saves = @ + 1]
    /\ \E input \in {""}, opened \in BOOLEAN :
          LET name == IF input = "" THEN filename ELSE input
          IN  /\ filename' = name
              /\ IF opened
                 THEN /\ disk' = [disk EXCEPT ![TempPath(name)] = File(<<>>)]
                      /\ pc' = "save_write"
                      /\ sv' = [phase |-> "writing", name |-> name, opened |-> TRUE,
                                i |-> 0, ok |-> TRUE,
                                prev |-> disk[DataPath(name)],
                                new |-> Serialize(history, csv_delimiter)]
                      /\ errs' = Begin(errs)
                 ELSE /\ errs' = AddError(Begin(errs), "Failed to open temp file", FALSE, now)
                      /\ sv' = [NoSave EXCEPT !.phase = "failed", !.name = name,
                                              !.prev = disk[DataPath(name)],
                                              !.new = Serialize(history, csv_delimiter)]
                      /\ UNCHANGED <<disk, pc>>
    /\ UNCHANGED <<history, pushed, now, csv_delimiter, temp_range, press_range, linkVars,
                   last_saved, loaded>>

\* one round of the for loop of save_data(): line i goes to the stream, or the write fails
SaveWrite ==
    /\ pc = "save_write"
    /\ sv.i < get_size(history)
    /\ \E written \in BOOLEAN :
          LET good == sv.ok /\ written
          IN  /\ sv' = [sv EXCEPT !.i = @ + 1, !.ok = good]
              /\ disk' = IF good
                         THEN [disk EXCEPT ![TempPath(sv.name)].lines = Append(@, sv.new[sv.i + 1])]
                         ELSE disk
    /\ UNCHANGED <<history, pushed, now, pc, cfgVars, linkVars, last_saved, loaded, count,
                   errs>>

\* (a save_data() that does not look at the stream after out.close())
StreamGood_unchecked(ok, flushed) == TRUE
\* !out.fail() after out.close(): no write has failed and the close flushed the rest
StreamGood(ok, flushed) == ok /\ flushed

\* out.close(); if (out.fail()) ...
SaveClose ==
    /\ pc = "save_write"
    /\ sv.i = get_size(history)
    /\ \E flushed \in BOOLEAN :
          IF StreamGood(sv.ok, flushed)
          THEN /\ pc' = "save_rename"
               /\ sv' = [sv EXCEPT !.phase = "closed"]
               /\ UNCHANGED errs
          ELSE /\ pc' = "run"
               /\ sv' = [sv EXCEPT !.phase = "failed", !.ok = FALSE]
               /\ errs' = AddError(errs, "Failed to write data to temp file", FALSE, now)
    /\ UNCHANGED <<history, pushed, now, cfgVars, linkVars, disk, last_saved, loaded, count>>

\* std::filesystem::rename(temp_path, "logs/" + filename), which replaces the
\* data file in one step or throws
SaveRename ==
    /\ pc = "save_rename"
    /\ \E renamed \in BOOLEAN :
          IF renamed
          THEN /\ disk' = [[disk EXCEPT ![TempPath(sv.name)] = Absent]
                              EXCEPT ![DataPath(sv.name)] = disk[TempPath(sv.name)]]
               /\ last_saved' = [last_saved EXCEPT ![sv.name] =
                                    [valid |-> TRUE, samples |-> Contents(history)]]
               /\ sv' = [sv EXCEPT !.phase = "renamed"]
               /\ errs' = AddError(errs, "Saved to", FALSE, now)
          ELSE /\ sv' = [sv EXCEPT !.phase = "failed"]
               /\ errs' = AddError(errs, "Failed to rename temp file", FALSE, now)
               /\ UNCHANGED <<disk, last_saved>>
    /\ pc' = "run"
    /\ UNCHANGED <<history, pushed, now, cfgVars, linkVars, loaded, count>>

\* the process is killed, or the power fails: the memory is gone, the files stay
Crash ==
    /\ pc \in {"run", "save_write", "save_rename"}
    /\ pc' = "crashed"
    /\ Commit([Construct(filename, "B9600", csv_delimiter, disk, "none", FALSE, now)
                  EXCEPT !.history = NewBuffer, !.errs = NoErrors,
                         !.last_saved = last_saved])
    /\ pushed' = <<>>
    /\ loaded' = ""
    /\ UNCHANGED <<now, csv_delimiter, temp_range, press_range, sv, count>>

\* the program is started again under the same file name, no device attached and
\* the data file readable: BMP280Gui(argc, argv) over the files left
Restart ==
    /\ pc = "crashed"
    /\ count.restarts < MaxRestarts
    /\ \E name \in {filename}, canOpen \in {TRUE} :
          LET m == Construct(name, "B9600", csv_delimiter, disk, "none", canOpen, now)
          IN  /\ Commit([m EXCEPT !.last_saved = last_saved])
              /\ pushed' = Contents(m.history)
              /\ loaded' = IF disk[DataPath(name)].exists /\ canOpen THEN name ELSE ""
    /\ pc' = "run"
    /\ sv' = NoSave
    /\ count' = [saves |-> 0, restarts |-> count.restarts + 1, before |-> 0, received |-> 0]
    /\ UNCHANGED <<now, csv_delimiter, temp_range, press_range>>

PersistNext ==
    \/ PersistPush
    \/ SaveOpen
    \/ SaveWrite
    \/ SaveClose
    \/ SaveRename
    \/ Crash
    \/ Restart

SpecPersist == PersistInit /\ [][PersistNext]_vars

\* C2: at every step of save_data(), a crash before the rename included, the data
\* file logs/<filename> holds what it held as save_data() began, or the complete
\* serialisation of the buffer: before the rename the former, after it the latter.
C2_AtomicSave ==
    /\ sv.phase \in {"writing", "closed", "failed"} => disk[DataPath(sv.name)] = sv.prev
    /\ sv.phase = "renamed" => disk[DataPath(sv.name)] = File(sv.new)

\* the process died in the middle of the loop: the temporary file holds a part of
\* the new lines, the data file the older, different content
C2_Witness ==
    /\ pc = "crashed"
    /\ sv.phase = "writing"
    /\ sv.i > 0 /\ sv.i < Len(sv.new)
    /\ Len(disk[TempPath(sv.name)].lines) = sv.i
    /\ sv.prev.exists
    /\ sv.prev # File(sv.new)

\* C3: save_data() followed by load_data() of the saved file into an empty buffer
\* yields the same samples in the same order, field for field.
C3_RoundTrip ==
    (pc = "run" /\ loaded # "" /\ last_saved[loaded].valid)
        => Contents(history) = last_saved[loaded].samples

(***************************************************************************)
(* Spec: the acquisition loop. A device sends lines; the handlers are      *)
(* update_state(), the keys 'p', 'c' and 'b', the expiry of the transient  *)
(* errors and the clock. (Key 's' is followed step by step in SpecPersist.)*)
(***************************************************************************)
\* a valid bmp280.ini that narrows the temperature range: temp_min=-40, temp_max=20
NarrowTempRange == <<TEMP_MIN, 20000>>

\* the data file of an earlier run: a line, a line whose timestamp lies in the
\* future, and a line that is valid again
EarlierFile ==
    File(<< OldLine(19000, 1000000, ",", StartTime - 50),
            OldLine(19500, 1001000, ",", StartTime + 1000),
            OldLine(18500, 990000, ",", StartTime - 40) >>)

Line(syms) == syms \o <<NL>>

\* what one read() returns: whole lines, a line cut before its newline, the rest of it
DataChunks ==
    { Line(<<LabelT, Num(23500)>>) \o Line(<<LabelP, Num(990000)>>),
      Line(<<LabelT, Num(23500)>>),
      Line(<<LabelP, Num(990000)>>),
      Line(<<LabelT, Num(999000)>>) \o Line(<<LabelP, Num(2000000)>>),
      <<Other, LabelP, Other, Num(990000), Other>>,
      <<NL>> }

\* in Spec the port stays open: select() finds nothing to read, or read() returns a chunk
DataAnswers == { Answer("not_ready", <<>>) } \cup { Answer("data", c) : c \in DataChunks }

\* in Spec a save, when one is due, succeeds
SavesSucceed == { [kind |-> "ok", written |-> 0] }

\* in Spec try_reconnect() returns at its first guard, and asks the system nothing
Unasked == { [port |-> FALSE, open |-> "none"] }

\* bmp280.ini narrows the temperature range (temp_max=20); the port is found and
\* opened; the data file of an earlier run is there or not
Init ==
    /\ \E d \in {EmptyDisk, [EmptyDisk EXCEPT ![DataPath("data.csv")] = EarlierFile]} :
          Boot("data.csv", "B9600", ",", d, "ok", TRUE)
    /\ temp_range = NarrowTempRange
    /\ press_range = DefaultPressRange

Update == UpdateState(Unasked, DataAnswers, SavesSucceed)
Clock == Tick(StartTime + DataHorizon, 1)

Next ==
    \/ Update
    \/ Clock

Spec == Init /\ [][Next]_vars

\* the samples the history holds, as a set
Stored == { At(history, i) : i \in 0 .. get_size(history) - 1 }

\* the lines the latest step appended to the log for a rejected reading
RejectionsLogged ==
    Cardinality({ i \in DOMAIN errs.log :
                    errs.log[i] \in {"Invalid temperature", "Invalid pressure"} })

\* C4: a step changes the history only by a read whose completed lines held both a
\* valid temperature and a valid pressure; a read whose completed lines held one of
\* the two, or none, leaves the history as it was, whatever earlier reads held
C4_PairedPush ==
    [][history' # history => read'.done /\ read'.temp /\ read'.press]_vars

\* a read completed a valid pressure line and no temperature line, after an
\* earlier read had pushed a sample, and pushed nothing: the history holds the
\* one sample still
C4_Witness ==
    /\ read.done /\ read.press /\ ~read.temp
    /\ loaded = "" /\ get_size(history) = 1

\* C5: every completed line whose temperature or pressure is out of range is
\* reported by exactly one error, which is not a persistent one, and no stored
\* sample holds a temperature or a pressure out of range
C5_Rejected ==
    /\ read.done => RejectionsLogged = read.rejected
    /\ \A i \in DOMAIN errs.persistent_errors :
          errs.persistent_errors[i] \notin {"Invalid temperature", "Invalid pressure"}
    /\ \A d \in Stored : /\ d.temperature >= TEMP_MIN /\ d.temperature <= TEMP_MAX
                         /\ d.pressure >= PRESS_MIN /\ d.pressure <= PRESS_MAX

\* a read completed the lines "Temp 999" and "Pres 2000": two errors, no sample
C5_Witness ==
    /\ read.done /\ read.rejected = 2 /\ RejectionsLogged = 2
    /\ ~read.temp /\ ~read.press
    /\ errs.error_messages # <<>> /\ errs.persistent_errors = <<>>

\* C6: every stored sample has its temperature within the configured temp_range,
\* its pressure within the configured press_range, and a timestamp that is
\* positive and not in the future
C6_ConfiguredRanges ==
    \A d \in Stored : /\ d.temperature >= temp_range[1] /\ d.temperature <= temp_range[2]
                      /\ d.pressure >= press_range[1] /\ d.pressure <= press_range[2]
                      /\ d.timestamp > 0 /\ d.timestamp <= now

(***************************************************************************)
(* SpecLink: the serial link over LinkHorizon seconds. The device is there *)
(* or not at each try_reconnect(), a read fails or finds nothing, the user *)
(* changes the baud rate and clears the errors.                            *)
(***************************************************************************)
\* select() finds nothing to read, or read() fails
LinkAnswers == { Answer("not_ready", <<>>), Answer("read_error", <<>>) }

LinkInit ==
    /\ \E port \in PortAnswers : Boot("data.csv", "B9600", ",", EmptyDisk, port, TRUE)
    /\ temp_range = DefaultTempRange
    /\ press_range = DefaultPressRange

\* in SpecLink no device is found, or it cannot be opened, or it opens at the first rate
LinkReconnectAnswers == { a \in ReconnectAnswers : a.open # "B115200" }

LinkUpdate == UpdateState(LinkReconnectAnswers, LinkAnswers, SavesSucceed)
\* in SpecLink the user types the other rate the program supports, or no number
BaudInputs == {"115200", "fast"}
BaudKey == KeyB(BaudInputs, LinkReconnectAnswers)

\* the loop is followed at the seconds RECONNECT_TIMEOUT - 1 and RECONNECT_TIMEOUT of
\* every period of RECONNECT_TIMEOUT seconds: just before a cool-down ends, and as it ends
LinkClock ==
    Tick(StartTime + LinkHorizon,
         IF (now - StartTime) % RECONNECT_TIMEOUT = 0 THEN RECONNECT_TIMEOUT - 1 ELSE 1)

LinkNext ==
    \/ LinkUpdate
    \/ BaudKey
    \/ KeyC
    \/ ExpireErrors
    \/ LinkClock

SpecLink == LinkInit /\ [][LinkNext]_vars

\* the budget is exhausted: max_reconnect_attempts attempts have failed in a row
\* since the port was last open
Exhausted == fd = Closed /\ tried.failed >= max_reconnect_attempts

\* the messages a failed reconnect attempt reports, whichever attempt it is
PerAttemptErrors ==
    {"No serial port available", "Failed to open serial port", "Failed to reconnect"}

\* C7: no step makes a reconnect attempt once max_reconnect_attempts attempts
\* have failed in a row
C7_BudgetRespected == attempt.made => attempt.after < max_reconnect_attempts

\* the budget is exhausted, the cool-down of the last attempt is over, and the
\* try_reconnect() of the latest step made no attempt
C7_Witness ==
    /\ Exhausted
    /\ now - tried.last >= RECONNECT_TIMEOUT
    /\ attempt.called /\ ~attempt.made

\* C8: once the budget is exhausted a persistent error is shown that is none of
\* the errors a single failed attempt reports
C8_LinkUnavailable ==
    Exhausted => \E i \in DOMAIN errs.persistent_errors :
                    errs.persistent_errors[i] \notin PerAttemptErrors

\* C9: with the budget exhausted, the baud-rate change of the control surface, the
\* one command that calls try_reconnect(), leaves the program able to attempt again
C9_ResetReenables ==
    [][(Exhausted /\ BaudKey) => reconnect_attempts' < max_reconnect_attempts]_vars

\* C10: every reconnect attempt comes RECONNECT_TIMEOUT seconds or more after the
\* attempt before it, and is made with no port open
C10_CoolDown ==
    attempt.made => attempt.gap >= RECONNECT_TIMEOUT /\ attempt.fd = Closed

\* the user changed the baud rate less than RECONNECT_TIMEOUT seconds after the
\* attempt that had opened the port: the port is closed, and the try_reconnect()
\* of the key handler made no attempt
C10_Witness ==
    /\ \E i \in DOMAIN errs.log : errs.log[i] = "Set baud rate to"
    /\ attempt.called /\ ~attempt.made
    /\ fd = Closed /\ reconnect_attempts = 0
    /\ tried.last > 0 /\ now - tried.last > 0 /\ now - tried.last < RECONNECT_TIMEOUT

(***************************************************************************)
(* A line longer than serial_buffer                                        *)
(***************************************************************************)
\* C11: the bytes pending in serial_buffer never rest at the cap of the buffer
\* (BUFFER_SIZE - 1 of them, none a newline): the read_serial() that fills it
\* drops them, so that the lines arriving afterwards are parsed
C11_FrameDropped == Len(serial_buf) < BUFFER_SIZE - 1

(***************************************************************************)
(* SpecPoll: read_serial() under every answer of select() and read(). The  *)
(* port is open at start; once a failure has closed it, try_reconnect()    *)
(* finds the device again or not. The user pauses and resumes (key 'p').   *)
(***************************************************************************)
PollHorizon == 2

\* select() finds nothing to read; read() returns 0 bytes; read() fails with EAGAIN
QuietAnswers == { Answer("not_ready", <<>>), Answer("data", <<>>), Answer("eagain", <<>>) }
\* select() fails; read() fails with an errno other than EAGAIN. The process
\* installs no signal handler, so neither call fails with EINTR.
FatalAnswers == { Answer("select_error", <<>>), Answer("read_error", <<>>) }
PollInit ==
    /\ Boot("data.csv", "B9600", ",", EmptyDisk, "ok", TRUE)
    /\ temp_range = DefaultTempRange
    /\ press_range = DefaultPressRange

\* besides the answers above, read() delivers a temperature and a pressure line
PollAnswers ==
    QuietAnswers \cup FatalAnswers
        \cup { Answer("data", Line(<<LabelT, Num(23500)>>) \o Line(<<LabelP, Num(990000)>>)) }

PollNext ==
    \/ UpdateState(LinkReconnectAnswers, PollAnswers, SavesSucceed)
    \/ KeyC
    \/ KeyP
    \/ Tick(StartTime + PollHorizon, 1)

SpecPoll == PollInit /\ [][PollNext]_vars

\* the latest step appended the report of a lost link to the log
LinkLostReported ==
    \E i \in DOMAIN errs.log : errs.log[i] \in {"Select error", "Serial read error"}

\* C12: with the port open and the reading not paused, an update_state() whose
\* read_serial() finds nothing to read, reads zero bytes or fails with EAGAIN
\* leaves the port open, the history and the pending bytes as they were, and
\* reports no lost link; one whose select() fails, or whose read() fails with
\* another errno, closes the port and reports it
C12_PollOutcomes ==
    [][(fd # Closed /\ ~paused) =>
          /\ UpdateState(LinkReconnectAnswers, QuietAnswers, SavesSucceed) =>
                /\ fd' = fd /\ ~LinkLostReported'
                /\ history' = history /\ serial_buf' = serial_buf
          /\ UpdateState(LinkReconnectAnswers, FatalAnswers, SavesSucceed) =>
                /\ fd' = Closed /\ LinkLostReported'
                /\ history' = history /\ serial_buf' = serial_buf]_vars

\* a failure has closed the port, after a read had stored a sample, and the
\* step has reported it
C12_Witness ==
    /\ fd = Closed /\ LinkLostReported
    /\ get_size(history) > 0 /\ ~attempt.made

(***************************************************************************)
(* SpecLoad: the process starts over a data file of any lines: valid ones, *)
(* recent or old, and lines that break one condition of load_data() each.  *)
(* Then the loop runs: readings arrive or not, the clock advances.         *)
(***************************************************************************)
\* the longest data file, in lines, and the seconds followed
MaxLines == 3
LoadHorizon == 1

\* #define STATS_WINDOW 300
STATS_WINDOW == 300

\* the lines of a data file: three valid ones (50 s old, as old as the window of the
\* statistics, one second older), then a first delimiter that is not csv_delimiter,
\* a second one that is not, a temperature out of range, a timestamp in the
\* future, a line that operator>> cannot read
FileLines ==
    { OldLine(18500, 990000, ",", StartTime - 50),
      OldLine(21000, 1000000, ",", StartTime - STATS_WINDOW),
      OldLine(-5000, 1013000, ",", StartTime - STATS_WINDOW - 1),
      [OldLine(19000, 1001000, ",", StartTime - 40) EXCEPT !.d1 = ";"],
      [OldLine(19500, 1002000, ",", StartTime - 30) EXCEPT !.d2 = ";"],
      OldLine(99000, 990000, ",", StartTime - 20),
      OldLine(20000, 995000, ",", StartTime + 1000),
      [OldLine(20500, 996000, ",", StartTime - 10) EXCEPT !.ok = FALSE] }

LoadInit ==
    /\ \E n \in 0 .. MaxLines : \E lines \in [1 .. n -> FileLines] :
          Boot("data.csv", "B9600", ",",
               [EmptyDisk EXCEPT ![DataPath("data.csv")] = File(lines)], "ok", TRUE)
    /\ temp_range = DefaultTempRange
    /\ press_range = DefaultPressRange

\* select() finds nothing to read, or read() delivers a temperature and a pressure line
LoadAnswers ==
    { Answer("not_ready", <<>>),
      Answer("data", Line(<<LabelT, Num(23500)>>) \o Line(<<LabelP, Num(990000)>>)) }

LoadNext ==
    \/ UpdateState(Unasked, LoadAnswers, SavesSucceed)
    \/ Tick(StartTime + LoadHorizon, 1)

SpecLoad == LoadInit /\ [][LoadNext]_vars

\* the constructor has just returned: no handler has run, the data file is the
\* one load_data() read and errs.log holds what the constructor logged
JustLoaded == loaded # "" /\ last_save = 0 /\ now = StartTime

\* the sample load_data() makes of a line
SampleOf(line) == DataPoint(ParseFloat(line.t), ParseFloat(line.p), line.ts)

\* C13: load_data() judges every line of the file by the test of lines 617-619:
\* when the lines that pass it fit in the buffer, the buffer holds exactly their
\* samples, in the order of the file, and one "Invalid data line" has been
\* logged for each of the other lines, wherever they stand in the file
C13_EveryLineJudged ==
    JustLoaded =>
        LET lines == disk[DataPath(loaded)].lines
            good  == SelectSeq(lines, LAMBDA l : LineAccepted(l, csv_delimiter, now))
        IN  Len(good) <= MAX_POINTS =>
               /\ Contents(history) = [i \in 1 .. Len(good) |-> SampleOf(good[i])]
               /\ Cardinality({ i \in DOMAIN errs.log : errs.log[i] = "Invalid data line" })
                     = Len(lines) - Len(good)

\* a file of three lines, the second one with a temperature out of range: the
\* first and the third are in the buffer and one error is logged, before the
\* constructor reports the load
C13_Witness ==
    /\ JustLoaded
    /\ Len(disk[DataPath(loaded)].lines) = 3
    /\ disk[DataPath(loaded)].lines[2].t = 99000
    /\ get_size(history) = 2
    /\ errs.log = <<"Invalid data line", "Loaded data from">>

\* C14: load_data() stores the sample of a line only if both of its field
\* delimiters are csv_delimiter, both values are in range and the timestamp is
\* positive and not in the future
C14_BothDelimiters ==
    JustLoaded =>
        LET lines == disk[DataPath(loaded)].lines
            good  == SelectSeq(lines, LAMBDA l :
                        /\ l.ok /\ l.d1 = csv_delimiter /\ l.d2 = csv_delimiter
                        /\ l.t >= TEMP_MIN /\ l.t <= TEMP_MAX
                        /\ l.p >= PRESS_MIN /\ l.p <= PRESS_MAX
                        /\ l.ts > 0 /\ l.ts <= now)
        IN  Len(good) <= MAX_POINTS =>
               Contents(history) = [i \in 1 .. Len(good) |-> SampleOf(good[i])]

(***************************************************************************)
(* operator[] and smooth_value() of CircularBuffer                         *)
(***************************************************************************)
\* const DataPoint& operator[](size_t index) const, as its caller sees it: the
\* std::out_of_range is thrown, or the slot is returned
Subscript(h, index) ==
    IF h.size = 0 THEN [thrown |-> TRUE, value |-> Unwritten]
    ELSE [thrown |-> FALSE, value |-> At(h, index)]

\* C15: operator[] throws std::out_of_range exactly when the buffer is empty or
\* the index is not below size(), and returns the sample at that logical index
\* otherwise
C15_IndexChecked ==
    \A index \in 0 .. MAX_POINTS :
        /\ Subscript(history, index).thrown <=> index >= get_size(history)
        /\ index < get_size(history) =>
              Subscript(history, index).value = Contents(history)[index + 1]

\* the loop of smooth_value(): the sum of the field over the logical indices i .. hi
RECURSIVE SmoothSum(_, _, _, _)
SmoothSum(h, is_temp, i, hi) ==
    IF i > hi THEN 0
    ELSE (IF is_temp THEN h.buffer[PhysIndex(h, i)].temperature
                     ELSE h.buffer[PhysIndex(h, i)].pressure)
         + SmoothSum(h, is_temp, i + 1, hi)

\* float smooth_value(bool is_temp, size_t index, int window) const: the value
\* returned and the buffer, whose caches are mutable, after the call. A cache
\* entry of 0.0f stands for "not computed"; sum / count is taken to the thousandth.
smooth_value(h, is_temp, index, window) ==
    IF h.size = 0 THEN [h |-> h, value |-> 0]
    ELSE LET idx   == Min(index, h.size - 1)
             cache == IF is_temp THEN h.temp_cache ELSE h.press_cache
         IN  IF cache[idx] # 0 THEN [h |-> h, value |-> cache[idx]]
             ELSE LET lo    == Max(0, idx - (window \div 2))
                      hi    == Min(h.size - 1, idx + (window \div 2))
                      n     == hi - lo + 1   \* int count
                      v     == IF n > 0 THEN SmoothSum(h, is_temp, lo, hi) \div n
                               ELSE SmoothSum(h, is_temp, idx, idx)
                  IN  [h     |-> IF is_temp THEN [h EXCEPT !.temp_cache[idx] = v]
                                 ELSE [h EXCEPT !.press_cache[idx] = v],
                       value |-> v]

(***************************************************************************)
(* SpecSmooth: the CircularBuffer under any sequence of push, clear and    *)
(* smooth_value, up to one push past the capacity                          *)
(***************************************************************************)
\* the windows asked for: the sample alone, and its two neighbours with it
SmoothWindows == {1, 3}

SmoothNext ==
    \/ Len(pushed) <= MAX_POINTS /\ BufPush
    \/ BufClear
    \/ \E is_temp \in BOOLEAN, index \in Slots, window \in SmoothWindows :
          /\ history' = smooth_value(history, is_temp, index, window).h
          /\ UNCHANGED <<pushed, procVars>>

SpecSmooth == BufInit /\ [][SmoothNext]_vars

\* the sum of a sequence of numbers
RECURSIVE Total(_)
Total(seq) == IF seq = <<>> THEN 0 ELSE Head(seq) + Total(Tail(seq))

\* C16: whatever pushes, clears and smooth_value calls came before,
\* smooth_value(is_temp, index, window) for index < size() returns the mean of
\* the field over the retained samples at the logical indices
\* max(0, index - window/2) .. min(size - 1, index + window/2)
C16_SmoothedMean ==
    \A is_temp \in BOOLEAN, index \in 0 .. (get_size(history) - 1), window \in SmoothWindows :
        LET first == Len(pushed) - get_size(history)
            lo    == Max(0, index - (window \div 2))
            hi    == Min(get_size(history) - 1, index + (window \div 2))
            field == [i \in 1 .. (hi - lo + 1) |->
                         IF is_temp THEN pushed[first + lo + i].temperature
                         ELSE pushed[first + lo + i].pressure]
        IN  smooth_value(history, is_temp, index, window).value
               = Total(field) \div (hi - lo + 1)

(***************************************************************************)
(* calculate_statistics()                                                  *)
(***************************************************************************)
\* Statistics stats = {0.0f, 0.0f, 0.0f, 0.0f, 0.0f, 0.0f, 0}
ZeroStats ==
    [min_temp |-> 0, max_temp |-> 0, avg_temp |-> 0,
     min_press |-> 0, max_press |-> 0, avg_press |-> 0, count |-> 0]

\* (a window that leaves out the sample that is exactly STATS_WINDOW seconds old)
InWindow_strict(t, ts) == t - ts < STATS_WINDOW
\* the negation of difftime(now, point.timestamp) > STATS_WINDOW
InWindow(t, ts) == ~(t - ts > STATS_WINDOW)

\* the for loop of calculate_statistics() from index i on:
\* st = [stats, temp_sum, press_sum, first]
RECURSIVE StatsLoop(_, _, _, _)
StatsLoop(st, h, i, t) ==
    IF i >= get_size(h) THEN st
    ELSE LET point == At(h, i)
         IN  IF ~InWindow(t, point.timestamp) THEN StatsLoop(st, h, i + 1, t)
             ELSE StatsLoop(
                    [stats |->
                        [st.stats EXCEPT
                           !.min_temp  = IF st.first THEN point.temperature
                                         ELSE Min(@, point.temperature),
                           !.max_temp  = IF st.first THEN point.temperature
                                         ELSE Max(@, point.temperature),
                           !.min_press = IF st.first THEN point.pressure
                                         ELSE Min(@, point.pressure),
                           !.max_press = IF st.first THEN point.pressure
                                         ELSE Max(@, point.pressure),
                           !.count     = @ + 1],
                     temp_sum  |-> st.temp_sum + point.temperature,
                     press_sum |-> st.press_sum + point.pressure,
                     first     |-> FALSE],
                    h, i + 1, t)

\* Statistics calculate_statistics() const, at time t; a quotient is taken to the thousandth
calculate_statistics(h, t) ==
    IF get_size(h) = 0 THEN ZeroStats
    ELSE LET st == StatsLoop([stats |-> ZeroStats, temp_sum |-> 0, press_sum |-> 0,
                              first |-> TRUE], h, 0, t)
         IN  IF st.stats.count > 0
             THEN [st.stats EXCEPT !.avg_temp  = st.temp_sum \div st.stats.count,
                                   !.avg_press = st.press_sum \div st.stats.count]
             ELSE st.stats

C18_FailedSaveHarmless ==
    (pc = "run" /\ sv.name # "" /\ (~sv.opened \/ ~sv.ok)) =>
        /\ sv.phase = "failed"
        /\ errs.log # <<>>
        /\ errs.log[Len(errs.log)] = IF sv.opened THEN "Failed to write data to temp file"
                                     ELSE "Failed to open temp file"
        /\ disk[DataPath(sv.name)] = sv.prev
        /\ sv.new = Serialize(history, csv_delimiter)

\* the second write of a save failed: the temporary file holds the first line,
\* the data file of the earlier run is intact and the buffer holds its samples
C18_Witness ==
    /\ pc = "run" /\ sv.opened /\ ~sv.ok /\ sv.phase = "failed"
    /\ get_size(history) >= 2
    /\ Len(disk[TempPath(sv.name)].lines) = 1
    /\ sv.prev.exists /\ disk[DataPath(sv.name)] = sv.prev
    /\ sv.prev # File(sv.new)

(***************************************************************************)
(* Quit: key 'q', the destructor and what main() returns                   *)
(***************************************************************************)
\* int main(): run() never returns, so main() ends by the catch of a
\* std::exception (return 1) or, had run() returned, by return 0
main(threw) == IF threw THEN 1 ELSE 0

\* pc once main() has returned `code`
Exited(code) == IF code = 0 THEN "exit_0" ELSE "exit_1"

\* (a destructor that does not save)
Destroy_nosave(m, end, t) == m
\* ~BMP280Gui(): save_data(), ending as `end`; what follows frees X11 resources
Destroy(m, end, t) == SaveData(m, end, t)

\* key 'q' in handle_events(): throw std::runtime_error("User quit"). The exception
\* leaves run(); unwinding main()'s try block destroys app; the catch returns.
KeyQ(saveEndings) ==
    /\ pc = "run"
    /\ \E end \in SaveEndings(history) \cap saveEndings :
          Commit(Destroy(Enter(Cur), end, now))
    /\ pc' = Exited(main(TRUE))
    /\ UNCHANGED <<pushed, now, csv_delimiter, temp_range, press_range, sv, loaded, count>>

(***************************************************************************)
(* SpecQuit: readings arrive, the periodic save succeeds, and at any time  *)
(* the user presses 'q'; the final save ends in any of the ways it can     *)
(***************************************************************************)
QuitInit ==
    /\ \E d \in {EmptyDisk, [EmptyDisk EXCEPT ![DataPath("data.csv")] = EarlierFile]} :
          Boot("data.csv", "B9600", ",", d, "ok", TRUE)
    /\ temp_range = DefaultTempRange
    /\ press_range = DefaultPressRange

\* the ways the final save can end: the temporary file cannot be opened, a write
\* fails after `written` lines, the rename fails, or all of it succeeds
QuitEndings ==
    { [kind |-> k, written |-> w] :
         k \in {"open_fail", "write_fail", "rename_fail", "ok"}, w \in 0 .. MAX_POINTS }

QuitKey == KeyQ(QuitEndings)

\* select() finds nothing to read, or read() delivers one of two pairs of lines
QuitAnswers ==
    { Answer("not_ready", <<>>),
      Answer("data", Line(<<LabelT, Num(23500)>>) \o Line(<<LabelP, Num(990000)>>)),
      Answer("data", Line(<<LabelT, Num(18500)>>) \o Line(<<LabelP, Num(1001000)>>)) }

QuitNext ==
    \/ UpdateState(Unasked, QuitAnswers, SavesSucceed)
    \/ QuitKey
    \/ Tick(StartTime + DataHorizon, 1)

SpecQuit == QuitInit /\ [][QuitNext]_vars

\* C19: a process that ended because the user pressed 'q' returned 0 from main();
\* no quit makes it return 1
C19_QuitExitsZero == pc \in {Exited(0), Exited(1)} => pc = Exited(0)

\* C20: the step of key 'q' runs save_data() exactly once, on the buffer as it
\* is, through the temporary file and the rename: either it reports the save and
\* the data file is the serialisation of the buffer, or it reports the failure
\* and the data file is what it was; the step reads nothing from the serial
\* port and leaves the buffer and the pending bytes alone, and the process has
\* ended after it
C20_FinalSave ==
    [][QuitKey =>
          /\ Len(errs'.log) = 1
          /\ errs'.log[1] \in {"Saved to", "Failed to open temp file",
                               "Failed to write data to temp file",
                               "Failed to rename temp file"}
          /\ errs'.log[1] = "Saved to" =>
                /\ disk'[DataPath(filename)] = File(Serialize(history, csv_delimiter))
                /\ disk'[TempPath(filename)] = Absent
          /\ errs'.log[1] # "Saved to" => disk'[DataPath(filename)] = disk[DataPath(filename)]
          /\ ~read'.done /\ ~attempt'.called
          /\ history' = history /\ serial_buf' = serial_buf
          /\ pc' \in {Exited(0), Exited(1)}]_vars

\* the user has quit with two fresh samples in the buffer since the periodic
\* save: the data file holds them
C20_Witness ==
    /\ pc \in {Exited(0), Exited(1)}
    /\ errs.log = <<"Saved to">>
    /\ get_size(history) >= 2
    /\ disk[DataPath(filename)] = File(Serialize(history, csv_delimiter))
    /\ last_save < now

(***************************************************************************)
(* The two error lists over time                                           *)
(***************************************************************************)
\* the messages of a list
Messages(list) == { list[i] : i \in DOMAIN list }

\* C21: a step removes a message from persistent_errors only if it is key 'c'
\* or a try_reconnect() that opened the port, and neither list ever holds more
\* than ERROR_LIST_MAX messages
C21_PersistentKept ==
    [][/\ Len(errs'.error_messages) <= ERROR_LIST_MAX
       /\ Len(errs'.persistent_errors) <= ERROR_LIST_MAX
       /\ ~(Messages(errs.persistent_errors) \subseteq Messages(errs'.persistent_errors))
             => KeyC \/ (attempt'.made /\ fd' # Closed)]_vars

(***************************************************************************)
(* Pause                                                                   *)
(***************************************************************************)
\* C22: a step that begins and ends paused changes neither the history, nor the
\* pending bytes, nor a file, nor last_save; an update_state() that runs unpaused
\* when a periodic save is due makes it
C22_PausedIdle ==
    [][/\ (paused /\ paused') =>
             /\ history' = history /\ serial_buf' = serial_buf
             /\ disk' = disk /\ last_save' = last_save /\ ~read'.done
       /\ (~paused /\ attempt'.called /\ now - last_save >= save_interval) =>
             /\ last_save' = now
             /\ disk'[DataPath(filename)] = File(Serialize(history', csv_delimiter))]_vars

\* paused since the start: an update_state() has just run a second later, the
\* port open and the first periodic save due, and has neither read nor saved
C22_Witness ==
    /\ paused /\ attempt.called /\ fd # Closed
    /\ now > StartTime /\ last_save = 0
    /\ get_size(history) = 0 /\ ~disk[DataPath(filename)].exists

(***************************************************************************)
(* SpecStream: the byte stream of the sensor, cut into reads at any place  *)
(***************************************************************************)
\* what the sensor sends: three temperature/pressure pairs, the last pressure
\* outside the limits, then a burst of BUFFER_SIZE bytes that holds no newline
Stream ==
    Line(<<LabelT, Num(21000)>>) \o Line(<<LabelP, Num(980000)>>)
        \o Line(<<LabelT, Num(23500)>>) \o Line(<<LabelP, Num(990000)>>)
        \o Line(<<LabelT, Num(22250)>>) \o Line(<<LabelP, Num(2000000)>>)
        \o [i \in 1 .. BUFFER_SIZE |-> Other]

\* update_state() in SpecStream: select() finds nothing or read() fails, or read()
\* returns the next bytes of Stream: the k bytes the port holds, or as many of
\* them as it was asked for; a lost port is found again and opens at the first rate
StreamUpdate ==
    \/ /\ update_state({ a \in ReconnectAnswers : a.open = "B9600" },
                       { Answer("not_ready", <<>>), Answer("read_error", <<>>) },
                       SavesSucceed)
       /\ UNCHANGED rest
    \/ \E k \in 1 .. BUFFER_SIZE :
          LET chunk == SubSeq(Stream, count.received + 1,
                              Min(Len(Stream), count.received + k))
          IN  /\ update_state({ a \in ReconnectAnswers : a.open = "B9600" },
                              { Answer("data", chunk) }, SavesSucceed)
              /\ count' = IF read'.done
                          THEN [count EXCEPT !.before = count.received,
                                             !.received = @ + Min(Len(chunk), Room(serial_buf))]
                          ELSE count
              /\ UNCHANGED <<pushed, now, pc, csv_delimiter, temp_range, press_range,
                             sv, loaded>>

StreamNext ==
    \/ StreamUpdate
    \/ KeyC

SpecStream == PollInit /\ [][StreamNext]_vars

\* the place in Stream of the last newline among its first c bytes, 0 when none
LineStart ==
    [c \in 0 .. Len(Stream) |->
        CHOOSE i \in {0} \cup Newlines(Stream) :
           i <= c /\ \A j \in Newlines(Stream) : j <= c => j <= i]

\* the bytes of Stream from the first byte of the line that byte c + 1 belongs to,
\* up to byte d
LinesSince(c, d) == SubSeq(Stream, LineStart[c] + 1, d)

\* C23: wherever the reads cut the stream, a read parses the lines of the stream
\* that end among the bytes it received, each from its first byte on and none of
\* them twice, and keeps as pending the bytes of the stream after the last newline
\* received: a line that came in several reads is parsed as the line it is
C23_SplitLines ==
    [][read'.done =>
          LET text == LinesSince(count.received, count'.received)
          IN  /\ count'.received > count.received
              /\ read' = Observed(text, Cardinality(Newlines(text)))
              /\ history' # history => read'.temp /\ read'.press
              /\ serial_buf' = LinesSince(count'.received, count'.received)]_vars

\* a read that began inside the line "Temp 22.25" has completed that line, and
\* has taken the temperature from it
C23_Witness ==
    /\ read.done /\ read.temp
    /\ LineStart[count.before] = 12 /\ count.before > 12
    /\ count.received = 15

\* C24: the pending bytes do not outlive the link: the read of the step that opens
\* the port again begins with no pending byte, so the lines it parses are made of
\* the bytes it received
C24_PendingAbandoned ==
    [][(fd = Closed /\ read'.done) => serial_buf = <<>>]_vars

\* C28: a read_serial() that received bytes pushes no sample, or one: the one made
\* of the last temperature and the last pressure within the limits among the
\* lines the read completed, however many pairs of lines it completed
C28_OnePushPerRead ==
    [][read'.done =>
          LET text == LinesSince(count.received, count'.received)
              n    == Cardinality(Newlines(text))
          IN  IF read'.temp /\ read'.press
              THEN history' = Push(history, DataPoint(LastInRange(text, n, "T"),
                                                      LastInRange(text, n, "P"), now))
              ELSE history' = history]_vars

\* one read has completed the first four lines of the stream, two pairs within the
\* limits, and the buffer holds one sample, made of the second pair
C28_Witness ==
    /\ read.done /\ count.before = 0 /\ count.received = 12
    /\ get_size(history) = 1
    /\ At(history, 0) = DataPoint(23500, 990000, now)

\* C30: the pending bytes never exceed BUFFER_SIZE - 1, and no read receives more
\* bytes than fit in serial_buffer after the bytes pending before it, with one
\* byte left for the terminator
C30_InsideBuffer ==
    /\ Len(serial_buf) <= BUFFER_SIZE - 1
    /\ read.done =>
          (count.before - LineStart[count.before]) + (count.received - count.before)
             <= BUFFER_SIZE - 1

\* a read has filled the buffer to its cap: the bytes pending are BUFFER_SIZE - 1
\* bytes of the burst, the last byte of which the port still holds
C30_Witness ==
    /\ read.done /\ count.received > count.before
    /\ count.before > LineStart[count.before]
    /\ Len(serial_buf) = BUFFER_SIZE - 1
    /\ count.received = Len(Stream) - 1

(***************************************************************************)
(* SpecReconnect: a device that opens at either rate, at the second, or at *)
(* none                                                                    *)
(***************************************************************************)
\* select() finds nothing to read, or fails
ReconnectReads == { Answer("not_ready", <<>>), Answer("select_error", <<>>) }

\* the port is lost and found again
ReconnectNext ==
    \/ UpdateState(ReconnectAnswers, ReconnectReads, SavesSucceed)
    \/ LinkClock

SpecReconnect == LinkInit /\ [][ReconnectNext]_vars

\* the failed open_serial() calls the latest step logged
OpenFailuresLogged ==
    Cardinality({ i \in DOMAIN errs.log : errs.log[i] = "Failed to open serial port" })

\* C25: a try_reconnect() that opens the port tries 9600 first and 115200 only
\* after 9600 has failed; the rate that opened is the current baud rate, the
\* counter of attempts is 0 and the lists of errors hold nothing of what they
\* held (the periodic save of the same update_state() may report "Saved to")
C25_FirstRateAdopted ==
    [][(fd = Closed /\ attempt'.made /\ fd' # Closed) =>
          /\ baud_rate' \in {"B9600", "B115200"}
          /\ baud_rate' = "B9600" => OpenFailuresLogged' = 0
          /\ baud_rate' = "B115200" =>
                OpenFailuresLogged' = 1 /\ Head(errs'.log) = "Failed to open serial port"
          /\ reconnect_attempts' = 0
          /\ errs'.persistent_errors = <<>>
          /\ Messages(errs'.error_messages) \subseteq {"Saved to"}]_vars

\* the port has opened at 115200, after attempts that failed and left errors
C25_Witness ==
    /\ fd # Closed /\ attempt.made /\ attempt.after > 0
    /\ baud_rate = "B115200"
    /\ reconnect_attempts = 0 /\ errs.persistent_errors = <<>>

(***************************************************************************)
(* SpecPrompt: the keys 's' and 'b', whose handlers read a line of         *)
(* standard input                                                          *)
(***************************************************************************)
\* key 's' or 'b' is pressed: the handler prints its prompt and calls
\* std::getline(std::cin, input), which returns when a line has been typed on the
\* terminal; the handler then goes on. Key 'p' and update_state() need no input.
\* The clock runs whatever the process does.
\* In SpecPrompt select() finds nothing to read.
PromptReads == { Answer("not_ready", <<>>) }

PromptNext ==
    \/ /\ pc = "run"
       /\ pc' \in {"prompt_s", "prompt_b"}
       /\ UNCHANGED <<history, pushed, now, cfgVars, linkVars, diskVars, errs>>
    \/ /\ pc = "prompt_s" /\ pc' = "run"
       /\ key_s({"", "run2.csv"}, SavesSucceed)
       /\ UNCHANGED <<pushed, now, csv_delimiter, temp_range, press_range, sv, loaded, count>>
    \/ /\ pc = "prompt_b" /\ pc' = "run"
       /\ key_b({"115200", "fast"}, { a \in ReconnectAnswers : a.open = "B9600" })
       /\ UNCHANGED <<pushed, now, csv_delimiter, temp_range, press_range, sv, loaded, count>>
    \/ KeyP
    \/ UpdateState(Unasked, PromptReads, SavesSucceed)
    \/ Tick(StartTime + PollHorizon, 1)

\* the loop of run() goes round on its own and the clock runs: what the process
\* and the system do is taken sooner or later, what the user does (a key, a line
\* typed on the terminal) may never come
SpecPrompt ==
    /\ PollInit /\ [][PromptNext]_vars
    /\ WF_vars(UpdateState(Unasked, PromptReads, SavesSucceed))
    /\ WF_vars(Tick(StartTime + PollHorizon, 1))

\* C26: no request keeps the loop waiting for an input that may never come: the
\* loop that has begun to handle a key is back between two handlers later on
C26_LoopResponsive ==
    (pc \in {"prompt_s", "prompt_b"}) ~> (pc = "run")

\* C27: the caches of smooth_value() are transparent: whatever calls came before,
\* smooth_value(is_temp, index, window) returns what it returns on the same
\* samples with both caches empty
C27_CacheTransparent ==
    \A is_temp \in BOOLEAN, index \in Slots, window \in SmoothWindows :
        smooth_value(history, is_temp, index, window).value
           = smooth_value([history EXCEPT !.temp_cache = [s \in Slots |-> 0],
                                          !.press_cache = [s \in Slots |-> 0]],
                          is_temp, index, window).value

\* C29: the rate the user asks for with key 'b' is the current baud rate once the
\* request has been handled, the reconnect it triggers included
C29_RequestedRateKept ==
    [][KeyB({"115200"}, LinkReconnectAnswers) => baud_rate' = "B115200"]_vars

====
